---- MODULE Spec2Model ----
(***************************************************************************)
(* ProConnect (src/proconnect_website/proconnect.py): the accounts,        *)
(* password hasher, session table and the WSGI routes that use them.       *)
(*                                                                         *)
(* Strings are sequences of one-character strings, so that strip(),        *)
(* split('$',1) and concatenation are computed character by character.     *)
(* Every SQL statement (with its commit) is one atomic step of the request *)
(* that runs it; requests of different processes interleave between        *)
(* statements.                                                             *)
(***************************************************************************)
EXTENDS Integers, Sequences, FiniteSets, TLC

VARIABLES users, sessions, posts, now, ticks, issued, workers, proc, out,
          revoked, hp

vars == <<users, sessions, posts, now, ticks, issued, workers, proc, out,
          revoked, hp>>

(***************************************************************************)
(* Bounds of the model.                                                    *)
(***************************************************************************)
MaxTokens == 2      \* how many tokens secrets.token_urlsafe hands out
MaxTicks == 1       \* how many times the wall clock is seen to advance
MaxPosts == 1       \* how many rows the posts table may hold
MaxSalts == 1       \* how many distinct salts signup is seen to draw

(***************************************************************************)
(* Program constants.                                                      *)
(***************************************************************************)
SESSION_TTL == 604800   \* session_create: int(time.time()) + 604800
SALT_BYTES == 8         \* hash_pw: secrets.token_hex(8)

(***************************************************************************)
(* Python values.  An optional value (None or x) is the set {} or {x}.     *)
(***************************************************************************)
None == {}
Some(x) == {x}
The(o) == CHOOSE x \in o : TRUE

Max(S) == CHOOSE x \in S : \A y \in S : y <= x

(***************************************************************************)
(* Characters and strings.                                                 *)
(***************************************************************************)
HexDigits == <<"0", "1", "2", "3", "4", "5", "6", "7",
               "8", "9", "a", "b", "c", "d", "e", "f">>

\* str.encode(): the byte of each character the model uses
Ord(c) ==
    CASE c = " " -> 32
      [] c = "$" -> 36
      [] c = "0" -> 48 [] c = "1" -> 49 [] c = "2" -> 50 [] c = "3" -> 51
      [] c = "4" -> 52 [] c = "5" -> 53 [] c = "6" -> 54 [] c = "7" -> 55
      [] c = "8" -> 56 [] c = "9" -> 57
      [] c = "a" -> 97 [] c = "b" -> 98 [] c = "c" -> 99 [] c = "d" -> 100
      [] c = "e" -> 101 [] c = "f" -> 102
      [] c = "p" -> 112 [] c = "q" -> 113

IsSpace(c) == c = " "

RECURSIVE lstrip(_)
lstrip(s) == IF s # <<>> /\ IsSpace(Head(s)) THEN lstrip(Tail(s)) ELSE s

RECURSIVE rstrip(_)
rstrip(s) ==
    IF s # <<>> /\ IsSpace(s[Len(s)]) THEN rstrip(SubSeq(s, 1, Len(s) - 1)) ELSE s

\* str.strip()
strip(s) == rstrip(lstrip(s))

\* index of the first occurrence of c in s, 0 when there is none
RECURSIVE FindFrom(_, _, _)
FindFrom(s, c, i) ==
    IF i > Len(s) THEN 0
    ELSE IF s[i] = c THEN i
    ELSE FindFrom(s, c, i + 1)

Find(s, c) == FindFrom(s, c, 1)

\* str.split(sep, 1): a list of one element when sep is absent,
\* otherwise the text before the first sep and the text after it
split1(s, sep) ==
    LET i == Find(s, sep) IN
    IF i = 0 THEN <<s>>
    ELSE <<SubSeq(s, 1, i - 1), SubSeq(s, i + 1, Len(s))>>

(***************************************************************************)
(* hashlib.sha256(b).hexdigest().  SHA-256 itself is not computed: the     *)
(* digest is idealised as collision-free, a string over the hex alphabet   *)
(* determined by the bytes hashed and by their order (two hex digits for   *)
(* each byte).                                                             *)
(***************************************************************************)
RECURSIVE sha256_hexdigest(_)
sha256_hexdigest(b) ==
    IF b = <<>> THEN <<>>
    ELSE <<HexDigits[(Ord(Head(b)) \div 16) + 1], HexDigits[(Ord(Head(b)) % 16) + 1]>>
         \o sha256_hexdigest(Tail(b))

\* secrets.token_hex(8): 16 hex digits.  AllSalts are the values the model
\* lets it return; signup draws among the first MaxSalts of them.
SaltPairs == <<(<<"0", "a">>), (<<"f", "3">>), (<<"9", "9">>)>>
SaltOf(sp) == [i \in 1..(2 * SALT_BYTES) |-> IF i % 2 = 1 THEN sp[1] ELSE sp[2]]
AllSalts == {SaltOf(SaltPairs[k]) : k \in DOMAIN SaltPairs}
Salts == {SaltOf(SaltPairs[k]) : k \in {j \in DOMAIN SaltPairs : j <= MaxSalts}}

\* the digest taken over pw + salt instead of salt + pw
hash_pw_swapped(pw, salt) == salt \o <<"$">> \o sha256_hexdigest(pw \o salt)

\* hash_pw(pw), for the salt that secrets.token_hex returned
hash_pw(pw, salt) == salt \o <<"$">> \o sha256_hexdigest(salt \o pw)

\* check_pw(pw, stored): "True", "False", or "ValueError" when the tuple
\* assignment  salt, h = stored.split('$',1)  gets a list of one element
check_pw(pw, stored) ==
    LET parts == split1(stored, "$") IN
    IF Len(parts) # 2 THEN "ValueError"
    ELSE IF sha256_hexdigest(parts[1] \o pw) = parts[2] THEN "True" ELSE "False"

(***************************************************************************)
(* Requests.  Form fields and cookies are drawn from these sets.           *)
(***************************************************************************)
\* the processes that may serve requests, in the order accept() tries them
Procs == <<"w1", "w2">>
ProcIds == {Procs[i] : i \in DOMAIN Procs}

FormUsernames == {<<>>, <<"a">>, <<"b">>, <<" ", "a">>}
FormPasswords == {<<>>, <<"p">>, <<"$", "q">>}

\* A session token is the index of the draw of secrets.token_urlsafe(32)
\* that returned it: draws never repeat a token (256 random bits).
Tokens == 1..MaxTokens
NoCookie == -1                  \* cookie_get returned None
EmptyCookie == 0                \* cookie_get returned ''
ForgedToken == MaxTokens + 1    \* a string the server never issues

\* session_create, line 66: the token the next draw returns
NextToken == Cardinality(issued) + 1

\* What a client may send as its session cookie: nothing, the empty value
\* left by logout, a forged string, or a token some response carried.
Cookies == {NoCookie, EmptyCookie, ForgedToken} \cup issued

\* Python truthiness of the cookie value:  if not tok
Falsy(tok) == tok = NoCookie \/ tok = EmptyCookie

(***************************************************************************)
(* The three tables of init_db.  A row keeps the columns some statement    *)
(* reads: users(id, username, password), sessions(token, user_id,          *)
(* expires), posts(id, user_id).                                           *)
(***************************************************************************)
\* the column declared without UNIQUE
UniqueViolation_off(name) == FALSE

\* users.username TEXT UNIQUE: the INSERT raises sqlite3.IntegrityError
UniqueViolation(name) == \E r \in users : r.username = name

\* users.id INTEGER PRIMARY KEY: the rowid SQLite assigns to a new row
NextUserId == IF users = {} THEN 1 ELSE Max({r.id : r \in users}) + 1

\* posts.id INTEGER PRIMARY KEY
NextPostId == IF posts = {} THEN 1 ELSE Max({r.id : r \in posts}) + 1

\* fetchone(): the first row of a result, or None
fetchone(rows) ==
    IF rows = {} THEN None
    ELSE Some(CHOOSE r \in rows : \A q \in rows : r.id <= q.id)

\* the id of the row inserted last (last_insert_rowid) in place of the
\* SELECT by username
SelectIdByName_latest(name) ==
    IF users = {} THEN None ELSE Some(CHOOSE r \in users : r.id = NextUserId - 1)

\* SELECT id FROM users WHERE username=?
SelectIdByName(name) == fetchone({r \in users : r.username = name})

\* the id column read one off
SelectCredentials_offby(name) ==
    LET r == fetchone({q \in users : q.username = name}) IN
    IF r = None THEN None ELSE Some([id |-> The(r).id + 1, password |-> The(r).password])

\* SELECT id,password FROM users WHERE username=?
SelectCredentials(name) ==
    LET r == fetchone({q \in users : q.username = name}) IN
    IF r = None THEN None ELSE Some([id |-> The(r).id, password |-> The(r).password])

\* the SELECT without its WHERE clause when the token has no row
SelectSession_first(tok) ==
    IF \E s \in sessions : s.token = tok
    THEN Some(CHOOSE s \in sessions : s.token = tok)
    ELSE IF sessions = {} THEN None
    ELSE Some(CHOOSE s \in sessions : \A t \in sessions : s.token <= t.token)

\* SELECT user_id,expires FROM sessions WHERE token=?   (token is the key)
SelectSession(tok) ==
    IF \E s \in sessions : s.token = tok
    THEN Some(CHOOSE s \in sessions : s.token = tok)
    ELSE None

\* the DELETE left out
DeleteSession_keep(tok) == sessions

\* the DELETE without its WHERE clause
DeleteSession_nowhere(tok) == {}

\* an UPDATE that marks the row expired in place of the DELETE
DeleteSession_expire(tok) ==
    {IF s.token = tok THEN [s EXCEPT !.expires = 0] ELSE s : s \in sessions}

\* the DELETE sweeping out every expired row as well
DeleteSession_sweep(tok) == {s \in sessions : s.token # tok /\ ~(s.expires < now)}

\* DELETE FROM sessions WHERE token=?
DeleteSession(tok) == {s \in sessions : s.token # tok}

\* SELECT * in place of SELECT id,username: the dict made of the whole row
SelectIdentity_row(uid) == fetchone({r \in users : r.id = uid})

\* SELECT id,username FROM users WHERE id=?   and the dict session_get returns
SelectIdentity(uid) ==
    IF \E r \in users : r.id = uid
    THEN Some([id |-> uid,
               username |-> (CHOOSE r \in users : r.id = uid).username])
    ELSE None

\* the values bound to the wrong columns
NewSession_swapped(tok, uid) ==
    [token |-> tok, user_id |-> now + SESSION_TTL, expires |-> uid]

\* the row session_create(uid) inserts when the token drawn is tok
NewSession(tok, uid) == [token |-> tok, user_id |-> uid, expires |-> now + SESSION_TTL]

\* the INSERT taken for a REPLACE of the user's sessions
InsertSession_single(tok, uid) ==
    {s \in sessions : s.user_id # uid} \cup {NewSession(tok, uid)}

\* INSERT INTO sessions VALUES (?,?,?)   (line 69): the table afterwards
InsertSession(tok, uid) == sessions \cup {NewSession(tok, uid)}

(***************************************************************************)
(* Responses: (status, headers, body) with the body reduced to the card    *)
(* it shows and the user the navigation bar names.                         *)
(***************************************************************************)
Page(body, user) ==
    [status |-> "200 OK", location |-> "", set_cookie |-> None, body |-> body, user |-> user]

Redirect(loc, cookie) ==
    [status |-> "302 FOUND", location |-> loc, set_cookie |-> cookie, body |-> "", user |-> None]

\* an exception no handler catches: wsgiref answers 500
ServerError(exc) ==
    [status |-> "500", location |-> "", set_cookie |-> None, body |-> exc, user |-> None]

(***************************************************************************)
(* A process serves one request at a time.  Its record holds the request   *)
(* (route, method, cookie, username, password) and the handler's locals.   *)
(* out is the last exchange completed: the request and its response; it is *)
(* emptied when the next request is taken.                                 *)
(*                                                                         *)
(* History, written and never read by the routes:                          *)
(*   revoked     the issued tokens logout has run its DELETE for           *)
(***************************************************************************)
Blank ==
    [pc |-> "idle", route |-> "", method |-> "", cookie |-> NoCookie,
     username |-> <<>>, password |-> <<>>,
     user |-> <<>>, row |-> None, at |-> 0, u |-> None, r |-> None, uid |-> 0]

\* the request as the handler finds it in env
Request(route, method, cookie, username, password) ==
    [Blank EXCEPT !.route = route, !.method = method, !.cookie = cookie,
                  !.username = username, !.password = password]

NoOut ==
    [route |-> "", method |-> "", cookie |-> NoCookie, username |-> <<>>,
     password |-> <<>>, resp |-> ServerError("")]

\* p takes the next request: it is the first idle process, and fewer than
\* `workers` requests are in flight (wsgiref's simple_server, line 222,
\* serves one request at a time: workers = 1)
Ready(p) ==
    /\ proc[p].pc = "idle"
    /\ Cardinality({q \in ProcIds : proc[q].pc # "idle"}) < workers
    /\ \E i \in DOMAIN Procs :
         /\ Procs[i] = p
         /\ \A j \in 1..(i - 1) : proc[Procs[j]].pc # "idle"

\* the handler of request f returns resp
Return(p, f, resp) ==
    /\ proc' = [proc EXCEPT ![p] = Blank]
    /\ out' = [route |-> f.route, method |-> f.method, cookie |-> f.cookie,
               username |-> f.username, password |-> f.password, resp |-> resp]

\* the handler of request f goes on to the statement at pc
Goto(p, f, pc) ==
    /\ proc' = [proc EXCEPT ![p] = [f EXCEPT !.pc = pc]]
    /\ out' = NoOut

HpIdle == [pw |-> <<>>, stored |-> <<>>, stage |-> "off", result |-> ""]

Tables ==
    /\ users = {}
    /\ sessions = {}
    /\ posts = {}
    /\ now = 0
    /\ ticks = 0
    /\ issued = {}
    /\ proc = [p \in ProcIds |-> Blank]
    /\ out = NoOut
    /\ revoked = {}

\* the state after init_db() on a new database file, served by
\* wsgiref.simple_server: one request at a time
Init ==
    /\ Tables
    /\ workers = 1
    /\ hp = HpIdle

\* how far int(time.time()) is seen to move at once: a second, a session
\* lifetime, a second more than that
ClockSteps == {1, SESSION_TTL, SESSION_TTL + 1}

\* time.time() moves on between any two steps
Tick ==
    /\ ticks < MaxTicks
    /\ \E d \in ClockSteps : now' = now + d
    /\ ticks' = ticks + 1
    /\ UNCHANGED <<users, sessions, posts, issued, proc, out, revoked, workers, hp>>

(***************************************************************************)
(* /signup                                                                 *)
(***************************************************************************)
\* signup, lines 146-147: GET shows the form
SignupForm(p) ==
    /\ Ready(p)
    /\ Return(p, Request("/signup", "GET", NoCookie, <<>>, <<>>), Page("signup form", None))
    /\ UNCHANGED <<users, sessions, posts, now, ticks, issued, revoked,
                   workers, hp>>

\* signup, lines 133-140 and 144-145: POST, the field check and the INSERT
SignupInsert(p) ==
    /\ Ready(p)
    /\ \E username \in FormUsernames, password \in FormPasswords :
        LET f == Request("/signup", "POST", NoCookie, username, password)
            user == strip(username)
        IN
        IF user = <<>> \/ password = <<>> THEN
            /\ Return(p, f, Page("All fields required.", None))
            /\ UNCHANGED users
        ELSE IF UniqueViolation(user) THEN
            /\ Return(p, f, Page("Username taken.", None))
            /\ UNCHANGED users
        ELSE
            /\ \E salt \in Salts :
                users' = users \cup {[id |-> NextUserId, username |-> user,
                                      password |-> hash_pw(password, salt)]}
            /\ Goto(p, [f EXCEPT !.user = user], "signup_select")
    /\ UNCHANGED <<sessions, posts, now, ticks, issued, revoked, workers, hp>>

\* signup, line 141: SELECT id FROM users WHERE username=?  ... fetchone()[0]
SignupSelectId(p) ==
    /\ proc[p].pc = "signup_select"
    /\ LET row == SelectIdByName(proc[p].user) IN
       IF row = None
       THEN Return(p, proc[p], ServerError("TypeError"))
       ELSE Goto(p, [proc[p] EXCEPT !.uid = The(row).id], "signup_session")
    /\ UNCHANGED <<users, sessions, posts, now, ticks, issued, revoked,
                   workers, hp>>

\* signup, lines 142-143: session_create(uid) and the redirect with the cookie
SignupSession(p) ==
    /\ proc[p].pc = "signup_session"
    /\ NextToken \in Tokens
    /\ sessions' = InsertSession(NextToken, proc[p].uid)
    /\ issued' = issued \cup {NextToken}
    /\ Return(p, proc[p], Redirect("/", Some(NextToken)))
    /\ UNCHANGED <<users, posts, now, ticks, revoked, workers, hp>>

(***************************************************************************)
(* /login                                                                  *)
(***************************************************************************)
\* login, lines 161-162: GET shows the form
LoginForm(p) ==
    /\ Ready(p)
    /\ Return(p, Request("/login", "GET", NoCookie, <<>>, <<>>), Page("login form", None))
    /\ UNCHANGED <<users, sessions, posts, now, ticks, issued, revoked,
                   workers, hp>>

\* login, lines 150-156: POST, the SELECT by the username as submitted
LoginSelect(p) ==
    /\ Ready(p)
    /\ \E username \in FormUsernames, password \in FormPasswords :
        Goto(p, [Request("/login", "POST", NoCookie, username, password)
                    EXCEPT !.user = username, !.r = SelectCredentials(username)],
             "login_check")
    /\ UNCHANGED <<users, sessions, posts, now, ticks, issued, revoked,
                   workers, hp>>

\* the password never compared
LoginAccepts_any(r, pw) == IF r = None THEN "False" ELSE "True"

\* what  r and check_pw(pw,r[1])  evaluates to
LoginAccepts(r, pw) == IF r = None THEN "False" ELSE check_pw(pw, The(r).password)

\* a page of its own for a username that has no row
LoginFailure_tells(r) ==
    IF r = None THEN Page("No such user.", None) ELSE Page("Invalid credentials.", None)

\* the page login returns when the test of line 157 fails for the row r
LoginFailure(r) == Page("Invalid credentials.", None)

\* login, lines 157-160
LoginCheck(p) ==
    /\ proc[p].pc = "login_check"
    /\ LET ok == LoginAccepts(proc[p].r, proc[p].password) IN
       IF ok = "True" THEN
           /\ NextToken \in Tokens
           /\ sessions' = InsertSession(NextToken, The(proc[p].r).id)
           /\ issued' = issued \cup {NextToken}
           /\ Return(p, proc[p], Redirect("/", Some(NextToken)))
       ELSE IF ok = "False" THEN
           /\ Return(p, proc[p], LoginFailure(proc[p].r))
           /\ UNCHANGED <<sessions, issued>>
       ELSE
           /\ Return(p, proc[p], ServerError(ok))
           /\ UNCHANGED <<sessions, issued>>
    /\ UNCHANGED <<users, posts, now, ticks, revoked, workers, hp>>

(***************************************************************************)
(* session_get, as called first by index, post and profile                 *)
(***************************************************************************)
AfterSessionGet(route) ==
    CASE route = "/" -> "index_feed"
      [] route = "/post" -> "post_body"
      [] route = "/profile" -> "profile_body"

\* the test left out, and the test with <= for <
Expired_never(row, t) == FALSE
Expired_le(row, t) == row.expires <= t

\* the test of line 81 on the row read, at the clock value t
Expired(row, t) == row.expires < t

\* session_get(tok), lines 73-85: what it returns when no other step falls
\* between its statements
session_get(tok) ==
    IF Falsy(tok) THEN None
    ELSE LET row == SelectSession(tok) IN
         IF row = None THEN None
         ELSE IF Expired(The(row), now) THEN None
         ELSE SelectIdentity(The(row).user_id)

\* session_get, lines 74-79: no token, or the SELECT of the session row
SessionGetSelect(p) ==
    /\ Ready(p)
    /\ \E route \in {"/", "/post", "/profile"}, tok \in Cookies :
        LET f == Request(route, "GET", tok, <<>>, <<>>)
            row == IF Falsy(tok) THEN None ELSE SelectSession(tok)
        IN
        IF row = None
        THEN Goto(p, f, AfterSessionGet(route))
        ELSE Goto(p, [f EXCEPT !.row = row], "session_check")
    /\ UNCHANGED <<users, sessions, posts, now, ticks, issued, revoked,
                   workers, hp>>

\* session_get, lines 80-85: the expiry test at the clock value read (at),
\* then the DELETE or the SELECT of the user
SessionGetCheck(p) ==
    /\ proc[p].pc = "session_check"
    /\ LET row == The(proc[p].row) IN
       IF Expired(row, now) THEN
           /\ sessions' = DeleteSession(proc[p].cookie)
           /\ Goto(p, [proc[p] EXCEPT !.at = now, !.u = None],
                   AfterSessionGet(proc[p].route))
       ELSE
           /\ Goto(p, [proc[p] EXCEPT !.at = now, !.u = SelectIdentity(row.user_id)],
                   AfterSessionGet(proc[p].route))
           /\ UNCHANGED sessions
    /\ UNCHANGED <<users, posts, now, ticks, issued, revoked, workers, hp>>

(***************************************************************************)
(* /, /post, /profile, /logout                                             *)
(***************************************************************************)
\* index, lines 118-130: the feed, with the post form for a signed-in user
IndexFeed(p) ==
    /\ proc[p].pc = "index_feed"
    /\ Return(p, proc[p], Page("feed", proc[p].u))
    /\ UNCHANGED <<users, sessions, posts, now, ticks, issued, revoked,
                   workers, hp>>

\* post, lines 172-180
PostBody(p) ==
    /\ proc[p].pc = "post_body"
    /\ IF proc[p].u = None THEN
           /\ Return(p, proc[p], Redirect("/login", None))
           /\ UNCHANGED posts
       ELSE
           /\ Cardinality(posts) < MaxPosts
           /\ posts' = posts \cup {[id |-> NextPostId, user_id |-> The(proc[p].u).id]}
           /\ Return(p, proc[p], Redirect("/", None))
    /\ UNCHANGED <<users, sessions, now, ticks, issued, revoked, workers, hp>>

\* profile, lines 184-190
ProfileBody(p) ==
    /\ proc[p].pc = "profile_body"
    /\ IF proc[p].u = None
       THEN Return(p, proc[p], Redirect("/login", None))
       ELSE Return(p, proc[p], Page("profile", proc[p].u))
    /\ UNCHANGED <<users, sessions, posts, now, ticks, issued, revoked,
                   workers, hp>>

\* logout, lines 165-168
Logout(p) ==
    /\ Ready(p)
    /\ \E tok \in Cookies :
        /\ sessions' = IF Falsy(tok) THEN sessions ELSE DeleteSession(tok)
        /\ revoked' = IF tok \in Tokens THEN revoked \cup {tok} ELSE revoked
        /\ Return(p, Request("/logout", "GET", tok, <<>>, <<>>),
                  Redirect("/", Some(EmptyCookie)))
    /\ UNCHANGED <<users, posts, now, ticks, issued, workers, hp>>

Next ==
    \/ Tick
    \/ \E p \in ProcIds : SignupForm(p)
    \/ \E p \in ProcIds : SignupInsert(p)
    \/ \E p \in ProcIds : SignupSelectId(p)
    \/ \E p \in ProcIds : SignupSession(p)
    \/ \E p \in ProcIds : LoginForm(p)
    \/ \E p \in ProcIds : LoginSelect(p)
    \/ \E p \in ProcIds : LoginCheck(p)
    \/ \E p \in ProcIds : SessionGetSelect(p)
    \/ \E p \in ProcIds : SessionGetCheck(p)
    \/ \E p \in ProcIds : IndexFeed(p)
    \/ \E p \in ProcIds : PostBody(p)
    \/ \E p \in ProcIds : ProfileBody(p)
    \/ \E p \in ProcIds : Logout(p)

Spec == Init /\ [][Next]_vars

(***************************************************************************)
(* Properties of the session routes, one request at a time (Spec).         *)
(***************************************************************************)
AfterGet == {"index_feed", "post_body", "profile_body"}

\* p's call of session_get has read a session row and has returned
Resolved(p) == proc[p].pc \in AfterGet /\ proc[p].row # None

\* C1: when session_get finds the row of its token expired (expires below
\* the clock value it reads), it returns None and no session row with that
\* token is left in the table.
C1_LazyExpiry ==
    \A p \in ProcIds :
        (Resolved(p) /\ The(proc[p].row).expires < proc[p].at)
            => (proc[p].u = None /\ SelectSession(proc[p].cookie) = None)

C1_Witness ==
    \E p \in ProcIds :
        /\ Resolved(p)
        /\ The(proc[p].row).expires < proc[p].at
        /\ proc[p].u = None
        /\ proc[p].cookie \in issued
        /\ SelectSession(proc[p].cookie) = None

\* C2: a session row inserted at clock value t has expires = t + 604800;
\* session_get on it returns the user at every clock value up to and
\* including expires, and None at every clock value above it.
C2_ValidityWindow ==
    [][ /\ \A s \in sessions' \ sessions : s.expires = now + 604800
        /\ \A p \in ProcIds :
             Resolved(p)' =>
                IF proc'[p].at <= The(proc'[p].row).expires
                THEN /\ proc'[p].u # None
                     /\ The(proc'[p].u).id = The(proc'[p].row).user_id
                ELSE proc'[p].u = None ]_vars

C2_Witness ==
    \E p \in ProcIds :
        /\ Resolved(p)
        /\ proc[p].at = The(proc[p].row).expires
        /\ proc[p].u # None

\* C3: session_create(uid) followed at once by session_get of the token it
\* returned gives the user whose id is uid.
C3_CreateThenResolve ==
    [][ \A tok \in Tokens :
          (tok \notin issued /\ tok \in issued') =>
             \E p \in ProcIds :
                /\ proc[p].pc \in {"signup_session", "login_check"}
                /\ out'.resp.set_cookie = Some(tok)
                /\ session_get(tok)' # None
                /\ The(session_get(tok)').id =
                      (IF proc[p].pc = "signup_session"
                       THEN proc[p].uid ELSE The(proc[p].r).id) ]_vars

C3_Witness ==
    \E tok \in Tokens :
        /\ out.route = "/login"
        /\ out.resp.set_cookie = Some(tok)
        /\ session_get(tok) # None
        /\ \E r \in users : r.id = The(session_get(tok)).id /\ r.username = out.username

\* C4: once logout has run for an issued token, the token has no session
\* row ever after, and every later session_get of it returns None: the
\* index and profile pages name no user for it and post redirects to /login.
C4_RevocationPermanent ==
    \A tok \in revoked :
        /\ SelectSession(tok) = None
        /\ \A p \in ProcIds :
             (proc[p].cookie = tok /\ proc[p].pc # "idle")
                => (proc[p].row = None /\ proc[p].u = None)
        /\ (out.cookie = tok /\ out.route \in {"/", "/post", "/profile"})
                => (out.resp.user = None /\ out.resp.location = IF out.route = "/" THEN "" ELSE "/login")

C4_Witness ==
    \E tok \in revoked :
        /\ out.cookie = tok
        /\ out.route = "/profile"
        /\ out.resp.location = "/login"
        /\ sessions # {}
        /\ now > 0

(***************************************************************************)
(* Properties of the account routes, one request at a time (Spec).         *)
(***************************************************************************)
\* signup accepts the form (username, password): both fields are non-empty
\* once the username is stripped.  After it has, the users table holds the
\* row it inserted: username strip(username), a hash of password.
FieldsGiven(username, password) == strip(username) # <<>> /\ password # <<>>

HoldsRowOf(username, password) ==
    \E r \in users : r.username = strip(username) /\ check_pw(password, r.password) = "True"

\* in this step p takes a POST to /signup: it goes on to the SELECT, or it
\* returns at once (no process record changes)
TakesSignup(p) ==
    /\ proc[p].pc = "idle"
    /\ \/ proc'[p].pc = "signup_select"
       \/ proc' = proc /\ out' # out /\ out'.route = "/signup" /\ out'.method = "POST"

\* the form of that request
TakenUsername(p) == IF proc'[p].pc = "signup_select" THEN proc'[p].username ELSE out'.username
TakenPassword(p) == IF proc'[p].pc = "signup_select" THEN proc'[p].password ELSE out'.password

\* C5: a login with a username and password that signup has accepted is
\* answered with a session of the user that signup created.
C5_LoginAfterSignup ==
    [][ \A p \in ProcIds :
          ( /\ proc[p].pc = "login_check" /\ proc'[p].pc = "idle"
            /\ FieldsGiven(proc[p].username, proc[p].password)
            /\ HoldsRowOf(proc[p].username, proc[p].password) )
          => /\ out'.resp.set_cookie # None
             /\ \E s \in sessions' \ sessions, r \in users :
                  /\ Some(s.token) = out'.resp.set_cookie
                  /\ s.user_id = r.id
                  /\ r.username = strip(proc[p].username) ]_vars

\* C6: a signup whose username already has a row is answered "Username
\* taken." and changes neither the users nor the sessions table.
C6_DuplicateRejected ==
    [][ \A p \in ProcIds :
          ( /\ TakesSignup(p)
            /\ FieldsGiven(TakenUsername(p), TakenPassword(p))
            /\ \E r \in users : r.username = strip(TakenUsername(p)) )
          => /\ proc'[p].pc = "idle"
             /\ out'.resp = Page("Username taken.", None)
             /\ users' = users
             /\ sessions' = sessions
             /\ issued' = issued ]_vars

C6_Witness ==
    /\ out.route = "/signup"
    /\ out.resp.body = "Username taken."
    /\ \E r \in users :
         /\ r.username = strip(out.username)
         /\ check_pw(out.password, r.password) = "False"

\* C9: a login that fails gets the same response whether the username has
\* no row or the password is wrong for the row it has: the page "Invalid
\* credentials." without a cookie, and no table changes.
C9_LoginFailureUniform ==
    [][ \A p \in ProcIds :
          ( /\ proc[p].pc = "login_check" /\ proc'[p].pc = "idle"
            /\ \/ proc[p].r = None
               \/ check_pw(proc[p].password, The(proc[p].r).password) = "False" )
          => /\ out'.resp = Page("Invalid credentials.", None)
             /\ out'.resp.set_cookie = None
             /\ users' = users
             /\ sessions' = sessions
             /\ issued' = issued ]_vars

C9_Witness ==
    /\ out.route = "/login"
    /\ out.resp.body = "Invalid credentials."
    /\ \E r \in users : r.username = out.username
    /\ \E r \in users : r.username # out.username

(***************************************************************************)
(* Several server processes on the same database file: two requests in     *)
(* flight, interleaved statement by statement, on the account routes.      *)
(***************************************************************************)
InitConc ==
    /\ Tables
    /\ workers = 2
    /\ hp = HpIdle

NextConc ==
    \/ \E p \in ProcIds : SignupInsert(p)
    \/ \E p \in ProcIds : SignupSelectId(p)
    \/ \E p \in ProcIds : SignupSession(p)
    \/ \E p \in ProcIds : LoginSelect(p)
    \/ \E p \in ProcIds : LoginCheck(p)

SpecConc == InitConc /\ [][NextConc]_vars

\* no two rows of users share a username; of the signups in flight past
\* the INSERT no two are for one username
UsernamesUnique ==
    /\ \A r1, r2 \in users : r1.username = r2.username => r1 = r2
    /\ \A p, q \in ProcIds :
         ( /\ p # q
           /\ proc[p].pc \in {"signup_select", "signup_session"}
           /\ proc[q].pc \in {"signup_select", "signup_session"} )
         => proc[p].user # proc[q].user

\* C7: however signups interleave, a signup of a username that has no row
\* inserts its row and goes on, a signup of a username that has a row is
\* answered "Username taken." and inserts nothing; so of several signups of
\* one username exactly one succeeds, and no two rows share a username.
C7_UniqueUsernames ==
    [][ /\ UsernamesUnique'
        /\ \A p \in ProcIds :
             (TakesSignup(p) /\ FieldsGiven(TakenUsername(p), TakenPassword(p)))
             => IF \E r \in users : r.username = strip(TakenUsername(p))
                THEN /\ proc' = proc
                     /\ out'.resp = Page("Username taken.", None)
                     /\ users' = users
                ELSE /\ proc'[p].pc = "signup_select"
                     /\ \E r \in users' \ users :
                          /\ r.username = strip(TakenUsername(p))
                          /\ users' = users \cup {r} ]_vars

C7_Witness ==
    \E p \in ProcIds :
        /\ proc[p].pc \in {"signup_select", "signup_session"}
        /\ out.route = "/signup"
        /\ out.resp.body = "Username taken."
        /\ strip(out.username) = proc[p].user

(***************************************************************************)
(* The password hasher on its own: hash_pw and check_pw applied to         *)
(* arguments drawn from HashPasswords and StoredForms.                     *)
(*   stage "args"      pw and stored are the arguments drawn               *)
(*   stage "hashed"    stored = hash_pw(pw)                                *)
(*   stage "checked"   result = check_pw(pw, stored) on the arguments      *)
(*   stage "verified"  result = check_pw(pw, hash_pw(pw))                  *)
(***************************************************************************)
HashPasswords ==
    FormPasswords \cup {<<"$">>, <<"p", "$", "q">>, <<"a", "b">>, <<"q", "$", "$">>}

StoredForms ==
    {<<>>, <<"a">>, <<"a", "b", "c">>, <<"$">>, <<"a", "$">>, <<"$", "7", "0">>,
     <<"a", "$", "6", "1", "7", "0">>, <<"a", "$", "6", "1", "$", "7", "0">>}
    \cup {sha256_hexdigest(salt \o <<"p">>) : salt \in AllSalts}
    \cup {hash_pw(<<"p">>, salt) : salt \in AllSalts}

InitPw ==
    /\ Tables
    /\ workers = 1
    /\ hp \in {[pw |-> pw, stored |-> stored, stage |-> "args", result |-> ""] :
                  pw \in HashPasswords, stored \in StoredForms}

HashPw ==
    /\ hp.stage = "args"
    /\ \E salt \in AllSalts :
        hp' = [hp EXCEPT !.stored = hash_pw(hp.pw, salt), !.stage = "hashed"]
    /\ UNCHANGED <<users, sessions, posts, now, ticks, issued, workers, proc, out, revoked>>

CheckPw ==
    /\ hp.stage \in {"args", "hashed"}
    /\ hp' = [hp EXCEPT !.result = check_pw(hp.pw, hp.stored),
                        !.stage = IF hp.stage = "hashed" THEN "verified" ELSE "checked"]
    /\ UNCHANGED <<users, sessions, posts, now, ticks, issued, workers, proc, out, revoked>>

NextPw == HashPw \/ CheckPw

SpecPw == InitPw /\ [][NextPw]_vars

\* C8: for every password and every stored form without a '$', check_pw
\* returns False; it does not raise.
C8_MalformedIsFalse ==
    (hp.stage = "checked" /\ Find(hp.stored, "$") = 0) => hp.result = "False"

\* C10: check_pw(p, hash_pw(p)) is True for every password p, with or
\* without '$' in it, and every salt drawn.
C10_RoundTrip == hp.stage = "verified" => hp.result = "True"

C10_Witness ==
    /\ hp.stage = "verified"
    /\ Find(hp.pw, "$") # 0
    /\ hp.result = "True"

(***************************************************************************)
(* The life of a session row, one request at a time (Spec).                *)
(***************************************************************************)
\* this step is a request to /logout that presents tok
LogoutStep(tok) == out' # out /\ out'.route = "/logout" /\ out'.cookie = tok

\* this step is the step of session_get that finds the row s expired
ExpiryStep(s) ==
    \E p \in ProcIds :
        /\ proc[p].pc = "session_check"
        /\ proc[p].cookie = s.token
        /\ proc'[p].pc \in AfterGet
        /\ s.expires < now

\* C11: logout with a token that has no session row answers with its
\* redirect (nothing is raised) and leaves the sessions and the users tables
\* as they were; so after any logout, running its DELETE for the same token
\* again changes nothing.
C11_RevokeUnknownNoOp ==
    [][ \A tok \in Cookies :
          LogoutStep(tok) =>
             /\ out'.resp = Redirect("/", Some(EmptyCookie))
             /\ SelectSession(tok) = None => (sessions' = sessions /\ users' = users)
             /\ SelectSession(tok)' = None
             /\ DeleteSession(tok)' = sessions' ]_vars

C11_Witness ==
    /\ out.route = "/logout"
    /\ out.cookie = ForgedToken
    /\ out.resp.status = "302 FOUND"
    /\ sessions # {}
    /\ revoked # {}

\* C12: a step that issues a new session (signup's or login's
\* session_create) keeps every session row there was, and each earlier token
\* resolves as it did before, to the user of its row; a logout keeps every
\* row but the one of the token it presents, and the other tokens resolve
\* as before.
C12_ManySessions ==
    [][ \A s \in sessions :
          ( \/ issued' # issued
            \/ \E tok \in Cookies : LogoutStep(tok) /\ tok # s.token )
          => /\ s \in sessions'
             /\ session_get(s.token)' = session_get(s.token)
             /\ ~Expired(s, now) =>
                   /\ session_get(s.token)' # None
                   /\ The(session_get(s.token)').id = s.user_id ]_vars

C12_Witness ==
    \E tok \in revoked, other \in issued :
        /\ other < tok
        /\ Cardinality(users) = 1
        /\ out.route = "/logout"
        /\ out.cookie = tok
        /\ session_get(other) # None

\* C13: a session row is never updated: in every step, a token that has a
\* row before and after has the same user_id and expires in both.
C13_SessionsImmutable ==
    [][ \A s \in sessions, t \in sessions' : t.token = s.token => t = s ]_vars

C13_Witness ==
    \E p \in ProcIds, q \in revoked :
        /\ Resolved(p)
        /\ proc[p].u # None
        /\ proc[p].at > The(proc[p].row).expires - SESSION_TTL
        /\ SelectSession(proc[p].cookie) = proc[p].row

\* C14: a step adds a session row only as the last step of a signup that
\* has inserted its user row, or of a login whose password matches the row
\* of its username, and the response carries the new token; a step that
\* answers "All fields required.", "Username taken." or "Invalid
\* credentials.", and every step of /, /post, /profile and /logout, adds
\* none.
C14_CreatedOnlyBySuccess ==
    [][ /\ \A s \in sessions' \ sessions :
             \E p \in ProcIds :
                /\ proc'[p].pc = "idle"
                /\ out'.resp = Redirect("/", Some(s.token))
                /\ \/ /\ proc[p].pc = "signup_session"
                      /\ s.user_id = proc[p].uid
                      /\ \E r \in users : r.id = proc[p].uid /\ r.username = proc[p].user
                   \/ /\ proc[p].pc = "login_check"
                      /\ \E r \in users :
                           /\ r.id = s.user_id
                           /\ r.username = proc[p].username
                           /\ check_pw(proc[p].password, r.password) = "True"
        /\ ( \/ out'.resp.body \in {"All fields required.", "Username taken.",
                                    "Invalid credentials."}
             \/ out'.route \in {"/", "/post", "/profile", "/logout"}
             \/ \E p \in ProcIds : proc'[p].route \in {"/", "/post", "/profile"} )
           => sessions' \subseteq sessions ]_vars

C14_Witness ==
    /\ out.route = "/signup"
    /\ \E s \in sessions, r \in users :
         /\ out.resp.set_cookie = Some(s.token)
         /\ s.user_id = r.id
         /\ r.username = strip(out.username)
    /\ Cardinality(sessions) = 2

\* C15: a session row leaves the table only in the step of session_get that
\* finds that row expired, or in a logout that presents its token; a step
\* that moves the clock, and every other step, keeps it, expired or not.
C15_NoReaper ==
    [][ /\ \A s \in sessions \ sessions' : ExpiryStep(s) \/ LogoutStep(s.token)
        /\ now' # now => sessions' = sessions ]_vars

C15_Witness ==
    \E s \in sessions :
        /\ s.expires < now
        /\ out.route \in {"/", "/post", "/profile", "/logout"}
        /\ out.cookie \in issued \ {s.token}
        /\ SelectSession(out.cookie) = None

(***************************************************************************)
(* The server started on a database file that exists already.  init_db     *)
(* creates the tables IF NOT EXISTS and so keeps the rows of the file; the *)
(* schema declares no foreign key, so a row of sessions may name a user_id *)
(* that users has no row for (a row removed from the file by other means). *)
(***************************************************************************)
\* the rows the users table of the file may hold
DbUserRows ==
    {[id |-> 1, username |-> <<"a">>, password |-> hash_pw(<<"p">>, SaltOf(SaltPairs[1]))],
     [id |-> 2, username |-> <<"b">>, password |-> hash_pw(<<"$", "q">>, SaltOf(SaltPairs[1]))]}

\* the sessions tables the file may hold: at most one row for a token
DbSessionTables ==
    {{[token |-> t, user_id |-> f[t], expires |-> SESSION_TTL] : t \in DOMAIN f} :
        f \in UNION {[T -> {r.id : r \in DbUserRows}] : T \in SUBSET Tokens}}

InitDb ==
    /\ users \in SUBSET DbUserRows
    /\ sessions \in DbSessionTables
    /\ posts = {}
    /\ now = 0
    /\ ticks = 0
    /\ issued = {s.token : s \in sessions}
    /\ proc = [p \in ProcIds |-> Blank]
    /\ out = NoOut
    /\ revoked = {}
    /\ workers = 1
    /\ hp = HpIdle

\* the routes that call session_get
NextDb ==
    \/ Tick
    \/ \E p \in ProcIds : SessionGetSelect(p)
    \/ \E p \in ProcIds : SessionGetCheck(p)
    \/ \E p \in ProcIds : IndexFeed(p)
    \/ \E p \in ProcIds : PostBody(p)
    \/ \E p \in ProcIds : ProfileBody(p)

SpecDb == InitDb /\ [][NextDb]_vars

\* the users table has a row with this id
UserExists(uid) == \E r \in users : r.id = uid

\* C16: when session_get reads an unexpired row whose user_id has no row in
\* users, it returns None and the session row stays in the table, and the
\* route answers without an error; when it returns a user, that value has
\* the fields id and username of the users row and no other field.
C16_MissingUserIsAnonymous ==
    /\ \A p \in ProcIds :
         Resolved(p) =>
            LET row == The(proc[p].row) IN
            /\ (~Expired(row, proc[p].at) /\ ~UserExists(row.user_id))
                  => (proc[p].u = None /\ row \in sessions)
            /\ proc[p].u # None =>
                  /\ DOMAIN The(proc[p].u) = {"id", "username"}
                  /\ The(proc[p].u).id = row.user_id
                  /\ \E r \in users : /\ r.id = The(proc[p].u).id
                                      /\ r.username = The(proc[p].u).username
    /\ out.route \in {"/", "/post", "/profile"} =>
         /\ out.resp.status # "500"
         /\ out.resp.user # None => DOMAIN The(out.resp.user) = {"id", "username"}
         /\ \A s \in sessions :
              (s.token = out.cookie /\ ~UserExists(s.user_id)) => out.resp.user = None

C16_Witness ==
    /\ users # {}
    /\ out.route = "/profile"
    /\ out.resp = Redirect("/login", None)
    /\ \E s \in sessions :
         /\ s.token = out.cookie
         /\ ~Expired(s, now)
         /\ ~UserExists(s.user_id)

(***************************************************************************)
(* Rows that name a user, through the routes.                              *)
(***************************************************************************)
\* C17: in every state the routes reach, the user_id of every session row
\* is the id of a row of users; so is the id a signup or a login in flight
\* is about to issue a session for.
C17_SessionsNameUsers ==
    /\ \A s \in sessions : UserExists(s.user_id)
    /\ \A p \in ProcIds :
         /\ proc[p].pc = "signup_session" => UserExists(proc[p].uid)
         /\ (proc[p].pc = "login_check" /\ proc[p].r # None)
               => UserExists(The(proc[p].r).id)

C17_Witness ==
    /\ Cardinality(users) = 2
    /\ \E s, t \in sessions :
         /\ s.user_id # t.user_id
         /\ UserExists(s.user_id)
         /\ UserExists(t.user_id)
         /\ out.resp.set_cookie = Some(t.token)
    /\ out.route = "/signup"

\* C18: with signups and logins of two processes interleaved statement by
\* statement, the step of a signup that issues its session answers with a
\* new token whose session row names the users row of the stripped username
\* of that request, and session_get of the token returns that user.
C18_SignupTokenIsOwn ==
    [][ \A p \in ProcIds :
          (proc[p].pc = "signup_session" /\ proc'[p].pc = "idle") =>
             \E tok \in Tokens \ issued :
                /\ out'.resp = Redirect("/", Some(tok))
                /\ \E s \in sessions', r \in users' :
                     /\ s.token = tok
                     /\ s.user_id = r.id
                     /\ r.username = strip(proc[p].username)
                /\ session_get(tok)' # None
                /\ The(session_get(tok)').username = strip(proc[p].username) ]_vars

C18_Witness ==
    \E tok \in Tokens, q \in ProcIds :
        /\ out.route = "/signup"
        /\ out.resp.set_cookie = Some(tok)
        /\ session_get(tok) # None
        /\ The(session_get(tok)).username = strip(out.username)
        /\ proc[q].pc \in {"signup_select", "signup_session"}
        /\ proc[q].user # strip(out.username)
        /\ \E r \in users : r.username = proc[q].user /\ r.id > The(session_get(tok)).id

\* the token tok has a session row that is not expired at the clock value
\* t and names a row of users
ResolvesAt(tok, t) ==
    \E s \in sessions : s.token = tok /\ ~(s.expires < t) /\ UserExists(s.user_id)

\* in this step p's request to /post returns
PostStep(p) == proc[p].pc = "post_body" /\ proc'[p].pc = "idle"

\* C19: the posts table changes only in the last step of a request to
\* /post.  When the cookie of that request has a session row, unexpired at
\* the clock value session_get read, the step inserts one row whose user_id
\* is the user_id of that session row and redirects to /; with no cookie, an
\* unknown, a revoked or an expired token it inserts nothing and redirects
\* to /login.  The user_id of every row of posts is the id of a row of
\* users.
C19_PostNeedsSession ==
    [][ /\ \A p \in ProcIds :
             PostStep(p) =>
                LET tok == proc[p].cookie IN
                /\ IF ResolvesAt(tok, proc[p].at)
                   THEN /\ out'.resp = Redirect("/", None)
                        /\ \E q \in posts' \ posts :
                             /\ posts' = posts \cup {q}
                             /\ q.user_id = The(SelectSession(tok)).user_id
                   ELSE /\ out'.resp = Redirect("/login", None)
                        /\ posts' = posts
                /\ ( \/ Falsy(tok)
                     \/ tok = ForgedToken
                     \/ tok \in revoked
                     \/ proc[p].row # None /\ The(proc[p].row).expires < proc[p].at )
                   => (posts' = posts /\ out'.resp = Redirect("/login", None))
        /\ posts' # posts => \E p \in ProcIds : PostStep(p)
        /\ \A q \in posts' : UserExists(q.user_id)' ]_vars

C19_Witness ==
    /\ posts # {}
    /\ out.route = "/post"
    /\ out.cookie \in revoked
    /\ out.resp = Redirect("/login", None)
    /\ \A q \in posts : UserExists(q.user_id)

====
